---- MODULE Spec2Model ----
(***************************************************************************)
(* State-machine model of the Aerodrome LP agent: the workflow             *)
(* orchestrator (LPAgent), the token layer (TokenService), the exchange    *)
(* layer (AerodromeService), the staking layer (GaugeService) and the      *)
(* part of the remote ledger they read and write.                          *)
(*                                                                         *)
(* Amounts are base-unit integers (bigint in the source).  A transaction   *)
(* identifier (receipt.hash) is the index of the transaction in the        *)
(* ledger's log txs.  The agent is single-threaded: every await of the     *)
(* source is one action.                                                   *)
(***************************************************************************)
EXTENDS Integers, Sequences, FiniteSets, TLC

VARIABLES
    usdcUser,       \* [Users -> Nat]   USDC balance of each end user
    userAllowance,  \* [Users -> Nat]   USDC allowance user -> agent
    agentBal,       \* [Tokens -> Nat]  token balances of the agent wallet
    allowance,      \* [Slots -> Nat]   allowances agent -> spender
    staked,         \* gauge.balanceOf(agent)
    native,         \* agent's native balance, in units of 0.005 ETH
    txs,            \* ledger log: every transaction the agent submitted
    poolAddress,    \* AerodromeService.poolAddress
    gaugeContract,  \* GaugeService.gaugeContract (null or set)
    pc,             \* position of the running workflow ("idle": none)
    apc,            \* position inside TokenService.approve ("none": not in it)
    loc,            \* locals of the running workflow
    txHashes,       \* the txHashes array of the running workflow
    result,         \* what the last workflow returned (NoResult: nothing yet)
    runsLeft,       \* invocations the environment may still start
    peer            \* pc, apc, loc, txHashes of a second invocation under way

vars == <<usdcUser, userAllowance, agentBal, allowance, staked, native, txs,
          poolAddress, gaugeContract, pc, apc, loc, txHashes, result, runsLeft, peer,
          peer>>

ledgerVars == <<usdcUser, userAllowance, agentBal, allowance, staked, native>>

-----------------------------------------------------------------------------
(* Addresses (CONTRACTS) *)

USDC == "USDC"
WETH == "WETH"
VIRTUAL == "VIRTUAL"
LP == "LP"
AERODROME_ROUTER == "router"
GAUGE == "gauge"
POOL == "pool"
ZeroAddress == "0x0"
NoAddress == ""

Tokens == {USDC, WETH, VIRTUAL, LP}
Users == {"u1", "u2"}
Slots == {<<USDC, AERODROME_ROUTER>>, <<WETH, AERODROME_ROUTER>>,
          <<VIRTUAL, AERODROME_ROUTER>>, <<LP, AERODROME_ROUTER>>, <<LP, GAUGE>>}

-----------------------------------------------------------------------------
(* Bounds of the model *)

MaxAmt == 3          \* largest deposit / withdrawal amount, in base units
Dec == 1             \* decimal places of the amount strings of the model

SwapOutputs == {1, 2}            \* what a confirmed swap may pay out
MintOutputs == {1, 2}            \* LP a confirmed addLiquidity may mint
RemoveOutputs == {<<1, 1>>, <<2, 1>>}  \* (WETH, VIRTUAL) a removeLiquidity pays
Quotes == {0, 1, 2}              \* what getAmountsOut may answer

-----------------------------------------------------------------------------
(* utils: parseUnits / formatUnits / calculateMinAmount *)

RECURSIVE Pow10(_)
Pow10(n) == IF n = 0 THEN 1 ELSE 10 * Pow10(n - 1)

\* A decimal string "w.f" with Dec fractional digits is [whole |-> w, frac |-> f];
\* BadString is any string ethers.parseUnits rejects.
BadString == [whole |-> -1, frac |-> -1]

\* a formatter that drops the fractional digits
formatUnitsWhole(value) == [whole |-> value \div Pow10(Dec), frac |-> 0]

formatUnits(value) == [whole |-> value \div Pow10(Dec), frac |-> value % Pow10(Dec)]

parseOk(s) == s.whole >= 0 /\ s.frac >= 0 /\ s.frac < Pow10(Dec)

parseUnits(s) == s.whole * Pow10(Dec) + s.frac

\* a comparison that takes "0.0" for an amount worth withdrawing
parseFloatNonNegative(s) == s.whole >= 0 /\ s.frac >= 0

\* parseFloat(s) > 0 for a string formatUnits produced
parseFloatPositive(s) == s.whole > 0 \/ s.frac > 0

\* slippage is a percentage; SlippageBps is floor(slippage * 100)
SlippageBps == 50

\* a bound that takes the basis points for a percentage
calculateMinAmountPercent(amount, slippageBps) == (amount * (100 - slippageBps)) \div 100

calculateMinAmount(amount, slippageBps) == (amount * (10000 - slippageBps)) \div 10000

-----------------------------------------------------------------------------
(* Ledger log *)

NoTxNeeded == 0      \* the "no-tx-needed" sentinel of approve; hashes are >= 1

Tx(op, step, token, amount, other, amountB, min) ==
    [op |-> op, step |-> step, status |-> "pending", token |-> token,
     amount |-> amount, other |-> other, amountB |-> amountB, min |-> min,
     minB |-> 0, out |-> 0, outB |-> 0]

HasPending == Len(txs) > 0 /\ txs[Len(txs)].status = "pending"

PendingTx == txs[Len(txs)]

\* receipt = await tx.wait(): the pending transaction is mined
Confirmed(out) == [txs EXCEPT ![Len(txs)].status = "confirmed", ![Len(txs)].out = out]

\* tx.wait() throws: the pending transaction reverted, nothing was written
Reverted == [txs EXCEPT ![Len(txs)].status = "reverted"]

\* a token that moves funds without looking at the allowance
transferFromUnchecked(from, amount) == usdcUser[from] >= amount

\* ERC20 transferFrom(from, to, amount): balance and allowance of from cover amount
transferFromOk(from, amount) ==
    usdcUser[from] >= amount /\ userAllowance[from] >= amount

\* a gauge that pays out more than is staked
gaugeWithdrawUnchecked(amount) == amount > 0

\* gauge withdraw(amount): the agent's stake covers amount
gaugeWithdrawOk(amount) == amount > 0 /\ staked >= amount

\* what the ledger requires of a transaction when it is submitted
Pre(tx) ==
    CASE tx.op = "transferFrom" -> transferFromOk(tx.other, tx.amount)
      [] tx.op = "transfer" -> agentBal[tx.token] >= tx.amount
      [] tx.op = "approve" -> TRUE
      [] tx.op = "swap" ->
            /\ tx.amount > 0
            /\ agentBal[tx.token] >= tx.amount
            /\ allowance[<<tx.token, AERODROME_ROUTER>>] >= tx.amount
      [] tx.op = "addLiquidity" ->
            /\ tx.amount > 0 /\ tx.amountB > 0
            /\ agentBal[WETH] >= tx.amount /\ agentBal[VIRTUAL] >= tx.amountB
            /\ allowance[<<WETH, AERODROME_ROUTER>>] >= tx.amount
            /\ allowance[<<VIRTUAL, AERODROME_ROUTER>>] >= tx.amountB
      [] tx.op = "removeLiquidity" ->
            /\ tx.amount > 0
            /\ agentBal[LP] >= tx.amount
            /\ allowance[<<LP, AERODROME_ROUTER>>] >= tx.amount
      [] tx.op = "stake" ->
            /\ tx.amount > 0
            /\ agentBal[LP] >= tx.amount
            /\ allowance[<<LP, GAUGE>>] >= tx.amount
      [] tx.op = "unstake" -> gaugeWithdrawOk(tx.amount)
      [] OTHER -> FALSE

\* the effect of the pending transaction on the ledger when it is mined
Apply(tx) ==
    \/ /\ tx.op = "transferFrom"
       /\ usdcUser' = [usdcUser EXCEPT ![tx.other] = @ - tx.amount]
       /\ userAllowance' = [userAllowance EXCEPT ![tx.other] = @ - tx.amount]
       /\ agentBal' = [agentBal EXCEPT ![USDC] = @ + tx.amount]
       /\ txs' = Confirmed(tx.amount)
       /\ UNCHANGED <<allowance, staked, native>>
    \/ /\ tx.op = "transfer"
       /\ usdcUser' = [usdcUser EXCEPT ![tx.other] = @ + tx.amount]
       /\ agentBal' = [agentBal EXCEPT ![tx.token] = @ - tx.amount]
       /\ txs' = Confirmed(tx.amount)
       /\ UNCHANGED <<userAllowance, allowance, staked, native>>
    \/ /\ tx.op = "approve"
       /\ allowance' = [allowance EXCEPT ![<<tx.token, tx.other>>] = tx.amount]
       /\ txs' = Confirmed(tx.amount)
       /\ UNCHANGED <<usdcUser, userAllowance, agentBal, staked, native>>
    \/ /\ tx.op = "swap"
       /\ \E out \in SwapOutputs :
            /\ out >= tx.min
            /\ agentBal' = [agentBal EXCEPT ![tx.token] = @ - tx.amount,
                                            ![tx.other] = @ + out]
            /\ txs' = Confirmed(out)
       /\ allowance' = [allowance EXCEPT ![<<tx.token, AERODROME_ROUTER>>] = @ - tx.amount]
       /\ UNCHANGED <<usdcUser, userAllowance, staked, native>>
    \/ /\ tx.op = "addLiquidity"
       /\ \E minted \in MintOutputs :
            /\ agentBal' = [agentBal EXCEPT ![WETH] = @ - tx.amount,
                                            ![VIRTUAL] = @ - tx.amountB,
                                            ![LP] = @ + minted]
            /\ txs' = Confirmed(minted)
       /\ allowance' = [allowance EXCEPT ![<<WETH, AERODROME_ROUTER>>] = @ - tx.amount,
                                         ![<<VIRTUAL, AERODROME_ROUTER>>] = @ - tx.amountB]
       /\ UNCHANGED <<usdcUser, userAllowance, staked, native>>
    \/ /\ tx.op = "removeLiquidity"
       /\ \E o \in RemoveOutputs :
            /\ agentBal' = [agentBal EXCEPT ![LP] = @ - tx.amount,
                                            ![WETH] = @ + o[1],
                                            ![VIRTUAL] = @ + o[2]]
            /\ txs' = [Confirmed(o[1]) EXCEPT ![Len(txs)].outB = o[2]]
       /\ allowance' = [allowance EXCEPT ![<<LP, AERODROME_ROUTER>>] = @ - tx.amount]
       /\ UNCHANGED <<usdcUser, userAllowance, staked, native>>
    \/ /\ tx.op = "stake"
       /\ agentBal' = [agentBal EXCEPT ![LP] = @ - tx.amount]
       /\ allowance' = [allowance EXCEPT ![<<LP, GAUGE>>] = @ - tx.amount]
       /\ staked' = staked + tx.amount
       /\ txs' = Confirmed(tx.amount)
       /\ UNCHANGED <<usdcUser, userAllowance, native>>
    \/ /\ tx.op = "unstake"
       /\ agentBal' = [agentBal EXCEPT ![LP] = @ + tx.amount]
       /\ staked' = staked - tx.amount
       /\ txs' = Confirmed(tx.amount)
       /\ UNCHANGED <<usdcUser, userAllowance, allowance, native>>

-----------------------------------------------------------------------------
(* Workflow results *)

NoResult == [kind |-> "none", success |-> FALSE, txHashes |-> <<>>,
             amount |-> formatUnits(0), error |-> ""]

\* The locals of a workflow.  Bookkeeping of the model, not of the source: entry
\* (the method the caller invoked), base (length of the ledger log at the call),
\* prereq (whether the deposit prerequisites held at the call), site (the call
\* site whose approve returned last), at (where the workflow ended), raised (the
\* error as the failing call raised it, "" if none), quoted (how the quote call
\* of the swap at hand ended).
NoLoc == [kind |-> "none", entry |-> "none", user |-> "", amount |-> 0, half |-> 0,
          weth |-> 0, virtual |-> 0, liquidity |-> 0, final |-> 0,
          currentAllowance |-> 0, approveTx |-> -1, site |-> "none",
          base |-> 0, prereq |-> TRUE, at |-> "none", raised |-> "",
          slippage |-> 0, expectedAmountOut |-> 0, quoted |-> "none",
          amountOutMin |-> 0]

\* no second invocation is under way
NoPeer == [pc |-> "idle", apc |-> "none", loc |-> NoLoc, txHashes |-> <<>>]

\* what stays of the locals when the workflow has returned
Returned(l, p) == [NoLoc EXCEPT !.kind = l.kind, !.entry = l.entry, !.base = l.base,
                                !.user = l.user, !.amount = l.amount,
                                !.prereq = l.prereq, !.at = p]

DepositPcs == {"dTransferFrom", "dApproveUsdc", "dSwapWeth", "dSwapVirtual",
               "dReconcile", "dApproveWeth", "dApproveVirtual", "dAddLiquidity",
               "dAddLiquidityRead", "dApproveLp", "dStake"}

WithdrawPcs == {"wUnstake", "wApproveLp", "wRemoveLiquidity", "wReconcile",
                "wApproveWeth", "wApproveVirtual", "wSwapWeth", "wSwapVirtual",
                "wReadUsdc", "wTransfer"}

ApprovePcs == {"dApproveUsdc", "dApproveWeth", "dApproveVirtual", "dApproveLp",
               "wApproveLp", "wApproveWeth", "wApproveVirtual"}

WritePcs == {"dTransferFrom", "dSwapWeth", "dSwapVirtual", "dAddLiquidity", "dStake",
             "wUnstake", "wRemoveLiquidity", "wSwapWeth", "wSwapVirtual", "wTransfer"}

\* the errors a remote call raises, each identified by its message
RemoteErrors == {"execution reverted", "network error"}

\* String(error) of the catch blocks
String(error) == "Error: " \o error

\* a layer that throws a new error around the one it caught
RethrowWrapped(error) == "Operation failed: " \o error

\* catch (error) { logger.error(...); throw error } of the layers
Rethrow(error) == error

\* throw new Error("Gauge service not initialized")
NotInitialized == "Gauge service not initialized"

\* a catch block that returns no transaction hashes
CatchNoHashes(err, log, raised) ==
    /\ result' = [kind |-> loc.kind, success |-> FALSE, txHashes |-> <<>>,
                  amount |-> formatUnits(0), error |-> String(err)]
    /\ txs' = log
    /\ pc' = "idle"
    /\ apc' = "none"
    /\ loc' = [Returned(loc, pc) EXCEPT !.raised = raised]
    /\ txHashes' = <<>>
    /\ UNCHANGED <<ledgerVars, poolAddress, gaugeContract, runsLeft, peer>>

\* a catch block that reports the workflow as succeeded
CatchSuccess(err, log, raised) ==
    /\ result' = [kind |-> loc.kind, success |-> TRUE, txHashes |-> txHashes,
                  amount |-> formatUnits(0), error |-> String(err)]
    /\ txs' = log
    /\ pc' = "idle"
    /\ apc' = "none"
    /\ loc' = [Returned(loc, pc) EXCEPT !.raised = raised]
    /\ txHashes' = <<>>
    /\ UNCHANGED <<ledgerVars, poolAddress, gaugeContract, runsLeft, peer>>

\* a catch block that sends what USDC the agent holds back to the user
CatchRefund(err, log, raised) ==
    /\ result' = [kind |-> loc.kind, success |-> FALSE, txHashes |-> txHashes,
                  amount |-> formatUnits(0), error |-> String(err)]
    /\ txs' = Append(log, [Tx("transfer", pc, USDC, agentBal[USDC], loc.user, 0, 0)
                              EXCEPT !.status = "confirmed"])
    /\ usdcUser' = [usdcUser EXCEPT ![loc.user] = @ + agentBal[USDC]]
    /\ agentBal' = [agentBal EXCEPT ![USDC] = 0]
    /\ pc' = "idle"
    /\ apc' = "none"
    /\ loc' = [Returned(loc, pc) EXCEPT !.raised = raised]
    /\ txHashes' = <<>>
    /\ UNCHANGED <<userAllowance, allowance, staked, native, poolAddress,
                   gaugeContract, runsLeft, peer>>

\* the catch block of executeFullDeposit / executeWithdraw: the result carries the
\* txHashes collected so far and the error; nothing is written to the ledger.
\* log is the ledger log as the failing step left it, err the error caught,
\* raised the error as the failing call raised it.
Catch(err, log, raised) ==
    /\ result' = [kind |-> loc.kind, success |-> FALSE, txHashes |-> txHashes,
                  amount |-> formatUnits(0), error |-> String(err)]
    /\ txs' = log
    /\ pc' = "idle"
    /\ apc' = "none"
    /\ loc' = [Returned(loc, pc) EXCEPT !.raised = raised]
    /\ txHashes' = <<>>
    /\ UNCHANGED <<ledgerVars, poolAddress, gaugeContract, runsLeft, peer>>

-----------------------------------------------------------------------------
(* LPAgent.initialize *)

GasFloorCheck == 1   \* checkDepositPrerequisites: agent balance >= 0.005 ETH

\* AerodromeService.initialize caches whatever getPool answered, then throws on the
\* null address; GaugeService.initialize resolves the gauge; ensureGasBalance last.
\* poolAns / gaugeAns are the answers of the factory and of the voter.
Initialize(poolAns, gaugeAns) ==
    /\ pc = "idle"
    /\ poolAddress' = poolAns
    /\ gaugeContract' = IF poolAns # ZeroAddress /\ gaugeAns # ZeroAddress
                        THEN gaugeAns ELSE gaugeContract
    /\ UNCHANGED <<ledgerVars, txs, pc, apc, loc, txHashes, result, runsLeft, peer>>

-----------------------------------------------------------------------------
(* TokenService.approve, as called from the workflows *)

\* new ethers.Contract(address): the token an address stands for ("" if none)
TokenAt(address) == IF address = POOL THEN LP ELSE IF address \in Tokens \ {LP} THEN address ELSE ""

ApproveArgs(p) ==
    CASE p = "dApproveUsdc" ->
            [token |-> USDC, spender |-> AERODROME_ROUTER, amount |-> loc.amount]
      [] p = "dApproveWeth" ->
            [token |-> WETH, spender |-> AERODROME_ROUTER, amount |-> loc.weth]
      [] p = "dApproveVirtual" ->
            [token |-> VIRTUAL, spender |-> AERODROME_ROUTER, amount |-> loc.virtual]
      [] p = "dApproveLp" ->
            [token |-> TokenAt(poolAddress), spender |-> gaugeContract,
             amount |-> loc.liquidity]
      [] p = "wApproveLp" ->
            [token |-> TokenAt(poolAddress), spender |-> AERODROME_ROUTER,
             amount |-> loc.amount]
      [] p = "wApproveWeth" ->
            [token |-> WETH, spender |-> AERODROME_ROUTER, amount |-> loc.weth]
      [] p = "wApproveVirtual" ->
            [token |-> VIRTUAL, spender |-> AERODROME_ROUTER, amount |-> loc.virtual]

\* the call sites that push the value approve returned, unless it is the sentinel
PushesApproval(p) == p \in {"dApproveUsdc", "dApproveLp", "wApproveLp"}

\* a deposit that goes from the USDC approval straight to the second swap
NextPcSkippingSwap(p) ==
    CASE p = "dApproveUsdc" -> "dSwapVirtual"
      [] p = "dApproveWeth" -> "dApproveVirtual"
      [] p = "dApproveVirtual" -> "dAddLiquidity"
      [] p = "dApproveLp" -> "dStake"
      [] p = "wApproveLp" -> "wRemoveLiquidity"
      [] p = "wApproveWeth" -> "wApproveVirtual"
      [] p = "wApproveVirtual" -> "wSwapWeth"

\* a deposit that goes back to the WETH approval after the VIRTUAL approval
NextPcApprovingAgain(p) ==
    CASE p = "dApproveUsdc" -> "dSwapWeth"
      [] p = "dApproveWeth" -> "dApproveVirtual"
      [] p = "dApproveVirtual" -> "dApproveWeth"
      [] p = "dApproveLp" -> "dStake"
      [] p = "wApproveLp" -> "wRemoveLiquidity"
      [] p = "wApproveWeth" -> "wApproveVirtual"
      [] p = "wApproveVirtual" -> "wSwapWeth"

NextPcAfterApprove(p) ==
    CASE p = "dApproveUsdc" -> "dSwapWeth"
      [] p = "dApproveWeth" -> "dApproveVirtual"
      [] p = "dApproveVirtual" -> "dAddLiquidity"
      [] p = "dApproveLp" -> "dStake"
      [] p = "wApproveLp" -> "wRemoveLiquidity"
      [] p = "wApproveWeth" -> "wApproveVirtual"
      [] p = "wApproveVirtual" -> "wSwapWeth"

Enter(p) == /\ pc' = p
            /\ apc' = IF p \in ApprovePcs THEN "read" ELSE "none"

\* a workflow that pushes whatever approve returned
IsTxHashAlways(ret) == TRUE

\* if (approveTx !== "no-tx-needed") this.txHashes.push(approveTx)
IsTxHash(ret) == ret # NoTxNeeded

\* approve returned ret to the workflow
ApproveReturn(ret, currentAllowance) ==
    /\ Enter(NextPcAfterApprove(pc))
    /\ txHashes' = IF PushesApproval(pc) /\ IsTxHash(ret)
                   THEN Append(txHashes, ret) ELSE txHashes
    /\ loc' = [loc EXCEPT !.approveTx = ret, !.site = pc,
                          !.currentAllowance = currentAllowance]
    /\ UNCHANGED <<result, runsLeft, peer, poolAddress, gaugeContract>>

\* an approve that writes again when the allowance equals the amount
SufficientStrict(currentAllowance, amount) == currentAllowance > amount

\* if (currentAllowance >= amount) return "no-tx-needed"
Sufficient(currentAllowance, amount) == currentAllowance >= amount

\* an approve that resets the allowance whatever it is
FirstWriteReset(currentAllowance) == "reset"

\* an approve that never resets the allowance
FirstWriteSet(currentAllowance) == "set"

\* if (currentAllowance > 0n) the allowance is first reset to 0
FirstWrite(currentAllowance) == IF currentAllowance > 0 THEN "reset" ELSE "set"

\* currentAllowance = await contract.allowance(agent, spender), and the branch on it
ApproveRead ==
    /\ pc \in ApprovePcs /\ apc = "read"
    /\ LET a == ApproveArgs(pc) IN
         \/ /\ <<a.token, a.spender>> \in Slots
            /\ LET currentAllowance == allowance[<<a.token, a.spender>>] IN
                 IF Sufficient(currentAllowance, a.amount)
                 THEN /\ ApproveReturn(NoTxNeeded, currentAllowance)
                      /\ UNCHANGED <<ledgerVars, txs>>
                 ELSE /\ apc' = FirstWrite(currentAllowance)
                      /\ loc' = [loc EXCEPT !.currentAllowance = currentAllowance,
                                            !.site = "none"]
                      /\ UNCHANGED <<ledgerVars, txs, pc, txHashes, result,
                                     runsLeft, peer, poolAddress, gaugeContract>>
         \/ \E error \in RemoteErrors : Catch(Rethrow(error), txs, error)

\* contract.approve(spender, 0n) or contract.approve(spender, amount) is submitted
ApproveSend ==
    /\ pc \in ApprovePcs /\ apc \in {"reset", "set"} /\ ~HasPending
    /\ LET a == ApproveArgs(pc) IN
         \/ /\ txs' = Append(txs, Tx("approve", pc, a.token,
                                     IF apc = "reset" THEN 0 ELSE a.amount,
                                     a.spender, 0, 0))
            /\ UNCHANGED <<ledgerVars, pc, apc, loc, txHashes, result, runsLeft, peer,
                           poolAddress, gaugeContract>>
         \/ \E error \in RemoteErrors : Catch(Rethrow(error), txs, error)

\* await resetTx.wait() / await tx.wait()
ApproveWait ==
    /\ pc \in ApprovePcs /\ apc \in {"reset", "set"} /\ HasPending
    /\ \/ /\ Apply(PendingTx)
          /\ IF apc = "reset"
             THEN /\ apc' = "set"
                  /\ UNCHANGED <<pc, loc, txHashes, result, runsLeft, peer, poolAddress,
                                 gaugeContract>>
             ELSE ApproveReturn(Len(txs), loc.currentAllowance)
       \/ \E error \in RemoteErrors : Catch(Rethrow(error), Reverted, error)

-----------------------------------------------------------------------------
(* checkDepositPrerequisites (read-only) *)

checkDepositPrerequisites(u, s) ==
    LET userHasUsdc == parseOk(s) /\ usdcUser[u] >= parseUnits(s)
        agentHasGas == native >= GasFloorCheck
        poolExists  == poolAddress # NoAddress /\ poolAddress # ZeroAddress
    IN  [canDeposit |-> userHasUsdc /\ agentHasGas /\ poolExists,
         userHasUsdc |-> userHasUsdc, agentHasGas |-> agentHasGas,
         poolExists |-> poolExists]

CheckDeposit(u, s) ==
    /\ pc = "idle" /\ runsLeft > 0
    /\ runsLeft' = runsLeft - 1
    /\ UNCHANGED peer
    /\ result' = [kind |-> "check",
                  success |-> checkDepositPrerequisites(u, s).canDeposit,
                  txHashes |-> <<>>, amount |-> formatUnits(0), error |-> ""]
    /\ loc' = [NoLoc EXCEPT !.kind = "check", !.entry = "checkDepositPrerequisites",
                            !.base = Len(txs)]
    /\ UNCHANGED <<ledgerVars, txs, pc, apc, txHashes, poolAddress, gaugeContract>>

-----------------------------------------------------------------------------
(* The write steps of the workflows *)

AmountStrings == {formatUnits(n) : n \in 1..MaxAmt} \cup {BadString}

\* executeFullDeposit: parseUnits(usdcAmount, 6) and halfUsdc, inside the try
StartDeposit(u, s) ==
    /\ pc = "idle" /\ runsLeft > 0
    /\ runsLeft' = runsLeft - 1
    /\ UNCHANGED peer
    /\ IF parseOk(s)
       THEN /\ loc' = [NoLoc EXCEPT !.kind = "deposit", !.user = u,
                                    !.entry = "executeFullDeposit",
                                    !.amount = parseUnits(s),
                                    !.half = parseUnits(s) \div 2,
                                    !.slippage = SlippageBps,
                                    !.base = Len(txs),
                                    !.prereq = checkDepositPrerequisites(u, s).canDeposit]
            /\ pc' = "dTransferFrom"
            /\ result' = NoResult
            /\ UNCHANGED <<apc, txHashes>>
       ELSE /\ result' = [kind |-> "deposit", success |-> FALSE, txHashes |-> <<>>,
                          amount |-> formatUnits(0), error |-> "invalid amount"]
            /\ loc' = [NoLoc EXCEPT !.kind = "deposit", !.base = Len(txs),
                                    !.entry = "executeFullDeposit",
                                    !.prereq = FALSE, !.at = "parse"]
            /\ UNCHANGED <<pc, apc, txHashes>>
    /\ UNCHANGED <<ledgerVars, txs, poolAddress, gaugeContract>>

\* executeWithdraw: parseUnits(lpAmount, 18), inside the try
EnterWithdraw(u, s, entry) ==
    /\ IF parseOk(s)
       THEN /\ loc' = [NoLoc EXCEPT !.kind = "withdraw", !.user = u, !.entry = entry,
                                    !.amount = parseUnits(s), !.base = Len(txs),
                                    !.slippage = SlippageBps]
            /\ pc' = "wUnstake"
            /\ result' = NoResult
            /\ UNCHANGED <<apc, txHashes>>
       ELSE /\ result' = [kind |-> "withdraw", success |-> FALSE, txHashes |-> <<>>,
                          amount |-> formatUnits(0), error |-> "invalid amount"]
            /\ loc' = [NoLoc EXCEPT !.kind = "withdraw", !.base = Len(txs),
                                    !.entry = entry, !.at = "parse"]
            /\ UNCHANGED <<pc, apc, txHashes>>
    /\ UNCHANGED <<ledgerVars, txs, poolAddress, gaugeContract>>

StartWithdraw(u, s) ==
    /\ pc = "idle" /\ runsLeft > 0
    /\ runsLeft' = runsLeft - 1
    /\ UNCHANGED peer
    /\ EnterWithdraw(u, s, "executeWithdraw")

\* AerodromeService.removeLiquidity: one router.removeLiquidity transaction with
\* zero minimum amounts out, confirmed before it returns its hash
removeLiquidity(p, lpAmount) == Tx("removeLiquidity", p, LP, lpAmount, "", 0, 0)

\* an addLiquidity that derives its minimum amounts from the slippage tolerance
addLiquidityMinSlippage(amountDesired, slippage) ==
    calculateMinAmount(amountDesired, slippage)

\* const amountAMin = 0n; const amountBMin = 0n: the slippage is not looked at
addLiquidityMin(amountDesired, slippage) == 0

\* AerodromeService.addLiquidity: the router.addLiquidity transaction
addLiquidity(p, amountADesired, amountBDesired, slippage) ==
    [Tx("addLiquidity", p, WETH, amountADesired, VIRTUAL, amountBDesired,
        addLiquidityMin(amountADesired, slippage))
       EXCEPT !.minB = addLiquidityMin(amountBDesired, slippage)]

\* reverse swaps that take what removeLiquidity reported instead of the balance
swapAmountInReported(p) ==
    LET removed == SelectSeq(SubSeq(txs, loc.base + 1, Len(txs)),
                             LAMBDA t : t.op = "removeLiquidity")
    IN  CASE p \in {"dSwapWeth", "dSwapVirtual"} -> loc.half
          [] p = "wSwapWeth" -> IF removed = <<>> THEN 0 ELSE removed[1].out
          [] p = "wSwapVirtual" -> IF removed = <<>> THEN 0 ELSE removed[1].outB

\* a deposit whose swaps each take the whole amount transferred in
swapAmountInWhole(p) ==
    CASE p \in {"dSwapWeth", "dSwapVirtual"} -> loc.amount
      [] p = "wSwapWeth" -> loc.weth
      [] p = "wSwapVirtual" -> loc.virtual

\* amountIn of each swapTokens call: halfUsdc (deposit), wethBalance and
\* virtualBalance as re-read after removeLiquidity (withdrawal)
swapAmountIn(p) ==
    CASE p \in {"dSwapWeth", "dSwapVirtual"} -> loc.half
      [] p = "wSwapWeth" -> loc.weth
      [] p = "wSwapVirtual" -> loc.virtual

\* the transaction a write step submits; min is the swap's amountOutMin
TxOf(p, min) ==
    CASE p = "dTransferFrom" -> Tx("transferFrom", p, USDC, loc.amount, loc.user, 0, 0)
      [] p = "dSwapWeth" -> Tx("swap", p, USDC, swapAmountIn(p), WETH, 0, min)
      [] p = "dSwapVirtual" -> Tx("swap", p, USDC, swapAmountIn(p), VIRTUAL, 0, min)
      [] p = "dAddLiquidity" -> addLiquidity(p, loc.weth, loc.virtual, loc.slippage)
      [] p = "dStake" -> Tx("stake", p, LP, loc.liquidity, GAUGE, 0, 0)
      [] p = "wUnstake" -> Tx("unstake", p, LP, loc.amount, GAUGE, 0, 0)
      [] p = "wRemoveLiquidity" -> removeLiquidity(p, loc.amount)
      [] p = "wSwapWeth" -> Tx("swap", p, WETH, swapAmountIn(p), USDC, 0, min)
      [] p = "wSwapVirtual" -> Tx("swap", p, VIRTUAL, swapAmountIn(p), USDC, 0, min)
      [] p = "wTransfer" -> Tx("transfer", p, USDC, loc.final, loc.user, 0, 0)

\* a swapTokens that gives up all protection when the quote call fails
AmountOutMinZero(quoteOk, expectedAmountOut, slippage) ==
    IF quoteOk THEN calculateMinAmount(expectedAmountOut, slippage) ELSE 0

\* swapTokens: amountOutMin from the quote, or 1n when the quote call fails
AmountOutMin(quoteOk, expectedAmountOut, slippage) ==
    IF quoteOk THEN calculateMinAmount(expectedAmountOut, slippage) ELSE 1

SwapPcs == {"dSwapWeth", "dSwapVirtual", "wSwapWeth", "wSwapVirtual"}

\* swapTokens, inner try: getSwapAmountOut answers or throws; a throw is caught,
\* logged as a warning, and the swap goes on
Quote ==
    /\ pc \in SwapPcs /\ ~HasPending /\ loc.quoted = "none"
    /\ \E quoteOk \in BOOLEAN, q \in Quotes :
         loc' = [loc EXCEPT !.quoted = IF quoteOk THEN "ok" ELSE "failed",
                            !.amountOutMin = AmountOutMin(quoteOk, q, loc.slippage)]
    /\ UNCHANGED <<ledgerVars, txs, pc, apc, txHashes, result, runsLeft, peer,
                   poolAddress, gaugeContract>>

\* a staking layer whose unstake goes to the gauge unchecked
NeedsGaugeStakeOnly(p) == p = "dStake"

\* stakeLPTokens / unstakeLPTokens throw before any call when gaugeContract is null
NeedsGauge(p) == p \in {"dStake", "wUnstake"}

\* a write step submits its transaction (or the call throws and nothing is sent)
Send ==
    /\ pc \in WritePcs /\ ~HasPending
    /\ pc \in SwapPcs => loc.quoted # "none"
    /\ \/ /\ NeedsGauge(pc) /\ gaugeContract # GAUGE
          /\ Catch(NotInitialized, txs, NotInitialized)
       \/ /\ NeedsGauge(pc) => gaugeContract = GAUGE
          /\ LET tx == TxOf(pc, loc.amountOutMin) IN
               /\ Pre(tx)
               /\ txs' = Append(txs, tx)
          /\ UNCHANGED <<ledgerVars, pc, apc, loc, txHashes, result, runsLeft, peer,
                         poolAddress, gaugeContract>>
       \/ /\ NeedsGauge(pc) => gaugeContract = GAUGE
          /\ \E error \in RemoteErrors : Catch(Rethrow(error), txs, error)

\* a withdrawal that reads the final balance after the first reverse swap
NextPcSkippingReverseSwap(p) ==
    CASE p = "dTransferFrom" -> "dApproveUsdc"
      [] p = "dSwapWeth" -> "dSwapVirtual"
      [] p = "dSwapVirtual" -> "dReconcile"
      [] p = "dAddLiquidity" -> "dAddLiquidityRead"
      [] p = "wUnstake" -> "wApproveLp"
      [] p = "wRemoveLiquidity" -> "wReconcile"
      [] p = "wSwapWeth" -> "wReadUsdc"
      [] p = "wSwapVirtual" -> "wReadUsdc"
      [] OTHER -> "idle"

NextPcAfterWrite(p) ==
    CASE p = "dTransferFrom" -> "dApproveUsdc"
      [] p = "dSwapWeth" -> "dSwapVirtual"
      [] p = "dSwapVirtual" -> "dReconcile"
      [] p = "dAddLiquidity" -> "dAddLiquidityRead"
      [] p = "wUnstake" -> "wApproveLp"
      [] p = "wRemoveLiquidity" -> "wReconcile"
      [] p = "wSwapWeth" -> "wSwapVirtual"
      [] p = "wSwapVirtual" -> "wReadUsdc"
      [] OTHER -> "idle"

\* a result that reports the liquidity the addLiquidity transaction minted
ResultAmountMinted(p) ==
    LET w == SelectSeq(SubSeq(txs, loc.base + 1, Len(txs)),
                       LAMBDA t : t.op = "addLiquidity" /\ t.status = "confirmed")
    IN  IF p = "dStake" THEN formatUnits(IF w = <<>> THEN 0 ELSE w[1].out)
        ELSE formatUnits(loc.final)

\* the amount string of a successful result
ResultAmount(p) == IF p = "dStake" THEN formatUnits(loc.liquidity) ELSE formatUnits(loc.final)

\* await tx.wait() of a write step: the hash is pushed when the layer returns it
\* (addLiquidity returns only after its balance read), the last step returns success
Wait ==
    /\ pc \in WritePcs /\ HasPending
    /\ \/ /\ Apply(PendingTx)
          /\ IF pc \in {"dStake", "wTransfer"}
             THEN /\ result' = [kind |-> loc.kind, success |-> TRUE,
                                txHashes |-> Append(txHashes, Len(txs)),
                                amount |-> ResultAmount(pc), error |-> ""]
                  /\ pc' = "idle"
                  /\ apc' = "none"
                  /\ loc' = Returned(loc, "done")
                  /\ txHashes' = <<>>
             ELSE /\ Enter(NextPcAfterWrite(pc))
                  /\ txHashes' = IF pc = "dAddLiquidity" THEN txHashes
                                 ELSE Append(txHashes, Len(txs))
                  /\ loc' = [loc EXCEPT !.quoted = "none", !.amountOutMin = 0]
                  /\ UNCHANGED result
          /\ UNCHANGED <<runsLeft, peer, poolAddress, gaugeContract>>
       \/ \E error \in RemoteErrors : Catch(Rethrow(error), Reverted, error)

-----------------------------------------------------------------------------
(* The read steps of the workflows *)

\* a reconciliation that takes what the deposit's swap into the token paid out
swapOutput(token) ==
    LET w == SelectSeq(SubSeq(txs, loc.base + 1, Len(txs)),
                       LAMBDA t : t.op = "swap" /\ t.other = token)
    IN  IF w = <<>> THEN agentBal[token] ELSE w[1].out

\* LPAgent.getTokenBalance: the agent's balance of the token, read from the ledger
getTokenBalance(token) == agentBal[token]

\* getTokenBalance(WETH), getTokenBalance(VIRTUAL) after the swaps (deposit) or
\* after removeLiquidity (withdrawal)
Reconcile ==
    /\ pc \in {"dReconcile", "wReconcile"}
    /\ \/ /\ loc' = [loc EXCEPT !.weth = getTokenBalance(WETH),
                                !.virtual = getTokenBalance(VIRTUAL)]
          /\ Enter(IF pc = "dReconcile" THEN "dApproveWeth" ELSE "wApproveWeth")
          /\ UNCHANGED <<ledgerVars, txs, txHashes, result, runsLeft, peer, poolAddress,
                         gaugeContract>>
       \/ \E error \in RemoteErrors : Catch(error, txs, error)

\* addLiquidity, after receipt: actualLPBalance = lpContract.balanceOf(to), returned
\* as liquidity; the orchestrator then pushes liquidityTx
AddLiquidityRead ==
    /\ pc = "dAddLiquidityRead"
    /\ \/ /\ TokenAt(poolAddress) = LP
          /\ loc' = [loc EXCEPT !.liquidity = agentBal[LP]]
          /\ txHashes' = Append(txHashes, Len(txs))
          /\ Enter("dApproveLp")
          /\ UNCHANGED <<ledgerVars, txs, result, runsLeft, peer, poolAddress, gaugeContract>>
       \/ \E error \in RemoteErrors : Catch(Rethrow(error), txs, error)

\* the USDC the two reverse swaps of the current invocation produced
swappedUsdc ==
    LET outOf(p) ==
          LET w == SelectSeq(SubSeq(txs, loc.base + 1, Len(txs)),
                             LAMBDA t : t.step = p /\ t.status = "confirmed")
          IN  IF w = <<>> THEN 0 ELSE w[1].out
    IN  outOf("wSwapWeth") + outOf("wSwapVirtual")

\* finalUsdcBalance = getTokenBalance(USDC): the agent's whole USDC balance
finalUsdcBalance == agentBal[USDC]

ReadUsdc ==
    /\ pc = "wReadUsdc"
    /\ \/ /\ loc' = [loc EXCEPT !.final = finalUsdcBalance]
          /\ Enter("wTransfer")
          /\ UNCHANGED <<ledgerVars, txs, txHashes, result, runsLeft, peer, poolAddress,
                         gaugeContract>>
       \/ \E error \in RemoteErrors : Catch(error, txs, error)

-----------------------------------------------------------------------------
(* withdrawAll *)

\* error.info.error.message.includes("rate limit")
RateLimitError == "rate limit exceeded"

\* how gaugeContract.balanceOf ends: it answers, or throws one of these errors
ReadErrors == {RateLimitError, "network error"}

\* a read that reports less than is staked
getStakedBalanceShort(read) == IF read = "ok" /\ staked > 0 THEN 1 ELSE 0

\* GaugeService.getStakedBalance (revised): any failure of the read returns 0n
getStakedBalance(read) == IF read = "ok" THEN staked ELSE 0

\* getWithdrawableAmount: a null gaugeContract throws, caught as "Error"
getWithdrawableAmount(read) ==
    IF gaugeContract # GAUGE
    THEN [stakedLP |-> BadString, canWithdraw |-> FALSE,
          message |-> "Error checking staked balance"]
    ELSE LET stakedLP == formatUnits(getStakedBalance(read)) IN
         [stakedLP |-> stakedLP, canWithdraw |-> parseFloatPositive(stakedLP),
          message |-> IF parseFloatPositive(stakedLP)
                      THEN "Agent has LP tokens available for withdrawal"
                      ELSE "No LP tokens staked - nothing to withdraw"]

withdrawAll(u) ==
    /\ pc = "idle" /\ runsLeft > 0
    /\ runsLeft' = runsLeft - 1
    /\ UNCHANGED peer
    /\ \E read \in {"ok"} \cup ReadErrors :
         LET withdrawable == getWithdrawableAmount(read) IN
           IF ~withdrawable.canWithdraw
           THEN /\ result' = [kind |-> "withdraw", success |-> FALSE,
                              txHashes |-> <<>>, amount |-> formatUnits(0),
                              error |-> withdrawable.message]
                /\ loc' = [NoLoc EXCEPT !.kind = "withdraw", !.entry = "withdrawAll",
                                        !.base = Len(txs), !.at = "getWithdrawableAmount",
                                        !.raised = IF gaugeContract # GAUGE
                                                   THEN NotInitialized
                                                   ELSE IF read = "ok" THEN ""
                                                   ELSE read]
                /\ UNCHANGED <<ledgerVars, txs, pc, apc, txHashes, poolAddress,
                               gaugeContract>>
           ELSE EnterWithdraw(u, withdrawable.stakedLP, "withdrawAll")

-----------------------------------------------------------------------------
(* Initial states and the next-state relation *)

MaxAllow == 9   \* an allowance no amount of the model exceeds

Init ==
    /\ \E f \in {1, MaxAmt} :
         usdcUser = [u \in Users |-> IF u = "u1" THEN f ELSE MaxAmt]
    /\ userAllowance = [u \in Users |-> IF u = "u1" THEN MaxAmt ELSE 0]
    /\ \E stray \in {0, 1} :
         agentBal = [t \in Tokens |-> IF t = VIRTUAL THEN 0 ELSE stray]
    /\ \E a \in {0, 1, MaxAllow} : allowance = [sl \in Slots |-> a]
    /\ staked \in {0, 2}
    /\ native \in {0, 2}
    /\ txs = <<>>
    /\ poolAddress = NoAddress
    /\ gaugeContract = "null"
    /\ pc = "idle"
    /\ apc = "none"
    /\ loc = NoLoc
    /\ txHashes = <<>>
    /\ result = NoResult
    /\ runsLeft = 1
    /\ peer = NoPeer

Next ==
    \/ \E poolAns \in {ZeroAddress, POOL}, gaugeAns \in {ZeroAddress, GAUGE} :
         runsLeft > 0 /\ Initialize(poolAns, gaugeAns)
    \/ \E u \in Users, s \in AmountStrings : StartDeposit(u, s)
    \/ \E u \in Users, s \in AmountStrings : StartWithdraw(u, s)
    \/ \E u \in Users : withdrawAll(u)
    \/ \E u \in Users, s \in AmountStrings : CheckDeposit(u, s)
    \/ ApproveRead
    \/ ApproveSend
    \/ ApproveWait
    \/ Quote
    \/ Send
    \/ Wait
    \/ Reconcile
    \/ AddLiquidityRead
    \/ ReadUsdc

Spec == Init /\ [][Next]_vars

\* The steps of a workflow under way: each is an awaited remote call, which
\* returns or fails.
Steps ==
    \/ ApproveRead
    \/ ApproveSend
    \/ ApproveWait
    \/ Quote
    \/ Send
    \/ Wait
    \/ Reconcile
    \/ AddLiquidityRead
    \/ ReadUsdc

\* Spec with every remote call of a workflow eventually returning or failing
SpecLive == Init /\ [][Next]_vars /\ WF_vars(Steps)

\* The round trip: an agent with no token balance and no stake takes one
\* deposit and, if it succeeded, the depositor's withdrawAll.
InitRoundTrip ==
    /\ usdcUser = [u \in Users |-> MaxAmt]
    /\ userAllowance = [u \in Users |-> IF u = "u1" THEN MaxAmt ELSE 0]
    /\ agentBal = [t \in Tokens |-> 0]
    /\ \E a \in {0, 1, MaxAllow} : allowance = [sl \in Slots |-> a]
    /\ staked = 0
    /\ native \in {0, 2}
    /\ txs = <<>>
    /\ poolAddress = NoAddress
    /\ gaugeContract = "null"
    /\ pc = "idle"
    /\ apc = "none"
    /\ loc = NoLoc
    /\ txHashes = <<>>
    /\ result = NoResult
    /\ runsLeft = 2
    /\ peer = NoPeer

NextRoundTrip ==
    \/ \E poolAns \in {ZeroAddress, POOL}, gaugeAns \in {ZeroAddress, GAUGE} :
         runsLeft > 0 /\ Initialize(poolAns, gaugeAns)
    \/ \E u \in Users, s \in AmountStrings : runsLeft = 2 /\ StartDeposit(u, s)
    \/ /\ runsLeft = 1
       /\ result.kind = "deposit" /\ result.success
       /\ withdrawAll(loc.user)
    \/ ApproveRead
    \/ ApproveSend
    \/ ApproveWait
    \/ Quote
    \/ Send
    \/ Wait
    \/ Reconcile
    \/ AddLiquidityRead
    \/ ReadUsdc

SpecRoundTrip == InitRoundTrip /\ [][NextRoundTrip]_vars

\* The exchange layer called on its own: one swapTokens or one addLiquidity
\* with a quoted output, desired amounts and a slippage tolerance of the caller.
MaxQuote == 8   \* the largest quoted output and desired amount

Slippages == {0, 50, 100, 5000, 10000}   \* tolerances, in basis points

InitExchange ==
    /\ usdcUser = [u \in Users |-> 0]
    /\ userAllowance = [u \in Users |-> 0]
    /\ agentBal = [t \in Tokens |-> MaxQuote]
    /\ allowance = [sl \in Slots |-> MaxQuote]
    /\ staked = 0
    /\ native = 2
    /\ txs = <<>>
    /\ poolAddress = POOL
    /\ gaugeContract = GAUGE
    /\ pc = "idle"
    /\ apc = "none"
    /\ \E E \in 0..MaxQuote, b \in Slippages, a \in {1, MaxQuote} :
         loc = [NoLoc EXCEPT !.kind = "exchange", !.amount = 1,
                             !.expectedAmountOut = E, !.slippage = b,
                             !.weth = a, !.virtual = MaxQuote]
    /\ txHashes = <<>>
    /\ result = NoResult
    /\ runsLeft = 1
    /\ peer = NoPeer

\* swapTokens(amountIn, route, to, slippage) up to the submission of the swap
ExchangeSwapTokens ==
    /\ pc = "idle" /\ runsLeft > 0
    /\ runsLeft' = runsLeft - 1
    /\ UNCHANGED peer
    /\ \E quoteOk \in BOOLEAN :
         LET amountOutMin == AmountOutMin(quoteOk, loc.expectedAmountOut, loc.slippage)
         IN  /\ loc' = [loc EXCEPT !.quoted = IF quoteOk THEN "ok" ELSE "failed",
                                    !.amountOutMin = amountOutMin]
             /\ txs' = Append(txs, Tx("swap", "swapTokens", USDC, loc.amount, WETH, 0,
                                      amountOutMin))
    /\ UNCHANGED <<ledgerVars, pc, apc, txHashes, result, poolAddress, gaugeContract>>

\* addLiquidity(tokenA, tokenB, amountADesired, amountBDesired, to, slippage) up
\* to the submission of the transaction
ExchangeAddLiquidity ==
    /\ pc = "idle" /\ runsLeft > 0
    /\ runsLeft' = runsLeft - 1
    /\ UNCHANGED peer
    /\ txs' = Append(txs, addLiquidity("addLiquidity", loc.weth, loc.virtual,
                                       loc.slippage))
    /\ UNCHANGED <<ledgerVars, pc, apc, loc, txHashes, result, poolAddress,
                   gaugeContract>>

\* await tx.wait() of the layer's transaction
ExchangeWait ==
    /\ pc = "idle" /\ HasPending
    /\ \/ Apply(PendingTx)
       \/ txs' = Reverted /\ UNCHANGED ledgerVars
    /\ UNCHANGED <<pc, apc, loc, txHashes, result, runsLeft, peer, poolAddress,
                   gaugeContract>>

NextExchange ==
    \/ ExchangeSwapTokens
    \/ ExchangeAddLiquidity
    \/ ExchangeWait

SpecExchange == InitExchange /\ [][NextExchange]_vars

\* withdrawAll on its own: an initialized agent with any staked balance up to
\* MaxStake takes one withdrawAll.
MaxStake == 12   \* the largest staked LP balance; more than one whole unit

InitWithdrawAll ==
    /\ usdcUser = [u \in Users |-> MaxAmt]
    /\ userAllowance = [u \in Users |-> 0]
    /\ agentBal = [t \in Tokens |-> 0]
    /\ \E a \in {0, 1, MaxAllow} : allowance = [sl \in Slots |-> a]
    /\ staked \in 0..MaxStake
    /\ native = 2
    /\ txs = <<>>
    /\ poolAddress = POOL
    /\ gaugeContract = GAUGE
    /\ pc = "idle"
    /\ apc = "none"
    /\ loc = NoLoc
    /\ txHashes = <<>>
    /\ result = NoResult
    /\ runsLeft = 1
    /\ peer = NoPeer

NextWithdrawAll ==
    \/ \E u \in Users : withdrawAll(u)
    \/ ApproveRead
    \/ ApproveSend
    \/ ApproveWait
    \/ Quote
    \/ Send
    \/ Wait
    \/ Reconcile
    \/ ReadUsdc

SpecWithdrawAll == InitWithdrawAll /\ [][NextWithdrawAll]_vars

\* Two invocations in a row: an agent without token balances, with or without
\* a stake of its own, takes one deposit and then, however the deposit ended,
\* one withdrawAll for any user.
InitLeftover ==
    /\ usdcUser = [u \in Users |-> MaxAmt]
    /\ userAllowance = [u \in Users |-> IF u = "u1" THEN MaxAmt ELSE 0]
    /\ agentBal = [t \in Tokens |-> 0]
    /\ \E a \in {0, MaxAllow} : allowance = [sl \in Slots |-> a]
    /\ staked \in {0, 2}
    /\ native = 2
    /\ txs = <<>>
    /\ poolAddress = NoAddress
    /\ gaugeContract = "null"
    /\ pc = "idle"
    /\ apc = "none"
    /\ loc = NoLoc
    /\ txHashes = <<>>
    /\ result = NoResult
    /\ runsLeft = 2
    /\ peer = NoPeer

NextLeftover ==
    \/ \E poolAns \in {ZeroAddress, POOL}, gaugeAns \in {ZeroAddress, GAUGE} :
         runsLeft = 2 /\ Initialize(poolAns, gaugeAns)
    \/ \E u \in Users, s \in AmountStrings : runsLeft = 2 /\ StartDeposit(u, s)
    \/ \E u \in Users : runsLeft = 1 /\ result.kind = "deposit" /\ withdrawAll(u)
    \/ ApproveRead
    \/ ApproveSend
    \/ ApproveWait
    \/ Quote
    \/ Send
    \/ Wait
    \/ Reconcile
    \/ AddLiquidityRead
    \/ ReadUsdc

SpecLeftover == InitLeftover /\ [][NextLeftover]_vars

\* Two invocations under way at once.  Each awaited call of a workflow yields
\* to the event loop, which may run another invocation: no lock, queue or flag
\* of LPAgent keeps a second caller out.  Interleave lets the second caller in
\* while the first deposit is between its USDC approval and its reconciliation
\* (no transaction of its own pending), and takes the first deposit up again
\* when the second invocation has returned.
Interleave ==
    /\ ~HasPending
    /\ \/ pc \in {"dSwapWeth", "dSwapVirtual", "dReconcile"} /\ peer = NoPeer
       \/ pc = "idle" /\ peer.pc # "idle"
    /\ pc' = peer.pc
    /\ apc' = peer.apc
    /\ loc' = peer.loc
    /\ txHashes' = peer.txHashes
    /\ peer' = [pc |-> pc, apc |-> apc, loc |-> loc, txHashes |-> txHashes]
    /\ UNCHANGED <<ledgerVars, txs, result, runsLeft, poolAddress, gaugeContract>>

\* an initialized agent without token balances; both users have approved it
InitConcurrent ==
    /\ usdcUser = [u \in Users |-> MaxAmt]
    /\ userAllowance = [u \in Users |-> MaxAmt]
    /\ agentBal = [t \in Tokens |-> 0]
    /\ \E a \in {0, MaxAllow} : allowance = [sl \in Slots |-> a]
    /\ staked = 0
    /\ native = 2
    /\ txs = <<>>
    /\ poolAddress = POOL
    /\ gaugeContract = GAUGE
    /\ pc = "idle"
    /\ apc = "none"
    /\ loc = NoLoc
    /\ txHashes = <<>>
    /\ result = NoResult
    /\ runsLeft = 2
    /\ peer = NoPeer

\* u1 deposits, and u2 deposits while or after u1's deposit runs
NextConcurrent ==
    \/ \E s \in {formatUnits(2)} :
         StartDeposit(IF runsLeft = 2 THEN "u1" ELSE "u2", s)
    \/ Interleave
    \/ ApproveRead
    \/ ApproveSend
    \/ ApproveWait
    \/ Quote
    \/ Send
    \/ Wait
    \/ Reconcile
    \/ AddLiquidityRead

SpecConcurrent == InitConcurrent /\ [][NextConcurrent]_vars

TypeOK ==
    /\ pc \in {"idle"} \cup DepositPcs \cup WithdrawPcs
    /\ apc \in {"none", "read", "reset", "set"}
    /\ \A t \in Tokens : agentBal[t] >= 0
    /\ \A sl \in Slots : allowance[sl] >= 0
    /\ \A u \in Users : usdcUser[u] >= 0 /\ userAllowance[u] >= 0
    /\ staked >= 0

-----------------------------------------------------------------------------
(* Vocabulary of the properties *)

\* the number, 1..9, of the step of the deposit workflow a position belongs to
StepNo(p) ==
    CASE p = "dTransferFrom" -> 1
      [] p = "dApproveUsdc" -> 2
      [] p = "dSwapWeth" -> 3
      [] p = "dSwapVirtual" -> 4
      [] p = "dReconcile" -> 5
      [] p \in {"dApproveWeth", "dApproveVirtual"} -> 6
      [] p \in {"dAddLiquidity", "dAddLiquidityRead"} -> 7
      [] p = "dApproveLp" -> 8
      [] p = "dStake" -> 9
      [] OTHER -> 0

\* the positions of the ledger log, in commit order
Ids == [i \in 1..Len(txs) |-> i]

\* the writes of the current invocation that were confirmed in a step before k
WritesBefore(k) ==
    SelectSeq(Ids, LAMBDA i : /\ i > loc.base
                              /\ txs[i].status = "confirmed"
                              /\ StepNo(txs[i].step) < k)

\* every confirmed write of the current invocation
AllWrites ==
    SelectSeq(Ids, LAMBDA i : i > loc.base /\ txs[i].status = "confirmed")

\* the writes one call site has submitted in the current invocation
CallTxs(p) ==
    SelectSeq(SubSeq(txs, loc.base + 1, Len(txs)), LAMBDA t : t.step = p)

DepositFailed ==
    /\ pc = "idle"
    /\ loc.entry = "executeFullDeposit"
    /\ result.kind = "deposit"
    /\ ~result.success

-----------------------------------------------------------------------------
\* C1: when step k > 1 of executeFullDeposit throws, the result has success =
\* false and its txHashes are, in commit order, exactly the ids of the writes
\* confirmed in steps 1..k-1, real approvals included.
C1_FailurePrefix ==
    (DepositFailed /\ StepNo(loc.at) > 1)
        => result.txHashes = WritesBefore(StepNo(loc.at))

-----------------------------------------------------------------------------
\* C2: the step in which a workflow fails submits no write and leaves the ledger
\* and every earlier confirmed write as they are; the workflow is over, so no
\* undo or refund follows.
WorkflowFails ==
    /\ pc' = "idle"
    /\ result' # result
    /\ result'.kind \in {"deposit", "withdraw"}
    /\ ~result'.success

C2_NoCompensation ==
    [][WorkflowFails =>
          /\ Len(txs') = Len(txs)
          /\ UNCHANGED ledgerVars
          /\ \A i \in 1..Len(txs) :
                txs[i].status = "confirmed" => txs'[i] = txs[i]]_vars

\* a deposit failed at its last step with the user's funds taken and swapped
C2_Witness ==
    /\ DepositFailed
    /\ loc.at = "dStake"
    /\ \E i \in 1..Len(txs) : txs[i].op = "swap" /\ txs[i].status = "confirmed"
    /\ usdcUser["u1"] < MaxAmt

-----------------------------------------------------------------------------
\* C3: the minted-LP amount addLiquidity returns equals the recipient's LP
\* balance after the call minus the balance before it (what the confirmed
\* addLiquidity write minted), whatever LP balance the recipient held before.
C3_LiquidityIsDelta ==
    (pc \in {"dApproveLp", "dStake"})
        => \A i \in 1..Len(txs) :
              (i > loc.base /\ txs[i].op = "addLiquidity" /\ txs[i].status = "confirmed")
                  => loc.liquidity = txs[i].out

-----------------------------------------------------------------------------
\* C4: the two swaps of a deposit of N base units take floor(N/2) and
\* ceil(N/2), so their inputs sum exactly to N.
C4_SplitSumsToAmount ==
    (loc.entry = "executeFullDeposit" /\ pc # "idle"
       /\ CallTxs("dSwapWeth") # <<>> /\ CallTxs("dSwapVirtual") # <<>>)
        => LET a == CallTxs("dSwapWeth")[1].amount
               b == CallTxs("dSwapVirtual")[1].amount
           IN  /\ a + b = loc.amount
               /\ {a, b} = {loc.amount \div 2, loc.amount - (loc.amount \div 2)}

-----------------------------------------------------------------------------
\* C5: an approve that reads an allowance already >= the requested amount
\* submits no write, leaves the allowance as it is and returns "no-tx-needed".
ReadsSufficientAllowance ==
    /\ pc \in ApprovePcs /\ apc = "read"
    /\ <<ApproveArgs(pc).token, ApproveArgs(pc).spender>> \in Slots
    /\ allowance[<<ApproveArgs(pc).token, ApproveArgs(pc).spender>>]
          >= ApproveArgs(pc).amount

C5_IdempotentApprove ==
    [][ReadsSufficientAllowance =>
          /\ txs' = txs
          /\ allowance' = allowance
          /\ apc' \notin {"reset", "set"}
          /\ pc' # "idle" => /\ loc'.approveTx = NoTxNeeded
                             /\ loc'.site = pc
                             /\ pc' = NextPcAfterApprove(pc)]_vars

\* the approval of the router for the deposited USDC returned the sentinel:
\* the allowance read covered a positive amount and the call wrote nothing
C5_Witness ==
    /\ pc = "dSwapWeth"
    /\ loc.site = "dApproveUsdc"
    /\ loc.approveTx = NoTxNeeded
    /\ loc.amount > 0
    /\ loc.currentAllowance >= loc.amount
    /\ CallTxs("dApproveUsdc") = <<>>

-----------------------------------------------------------------------------
\* C6: an approve that reads an allowance a with 0 < a < amount submits exactly
\* two writes, approve(spender, 0) and then approve(spender, amount); the second
\* is submitted only when the first is confirmed, and approve returns only when
\* the second is confirmed.
ApproveWrite(t, amount, status) ==
    t.op = "approve" /\ t.amount = amount /\ t.status = status

C6_ResetBeforeIncrease ==
    /\ (pc \in ApprovePcs /\ apc \in {"reset", "set"} /\ loc.currentAllowance > 0)
          => LET w == CallTxs(pc)
                 amount == ApproveArgs(pc).amount
             IN  /\ loc.currentAllowance < amount
                 /\ apc = "reset"
                       => \/ w = <<>>
                          \/ Len(w) = 1 /\ ApproveWrite(w[1], 0, "pending")
                 /\ apc = "set"
                       => /\ Len(w) \in {1, 2}
                          /\ ApproveWrite(w[1], 0, "confirmed")
                          /\ Len(w) = 2 => ApproveWrite(w[2], amount, "pending")
    /\ (pc # "idle" /\ loc.site \in ApprovePcs /\ loc.currentAllowance > 0
          /\ loc.currentAllowance < ApproveArgs(loc.site).amount)
          => LET w == CallTxs(loc.site)
                 amount == ApproveArgs(loc.site).amount
             IN  /\ Len(w) = 2
                 /\ ApproveWrite(w[1], 0, "confirmed")
                 /\ ApproveWrite(w[2], amount, "confirmed")
                 /\ loc.approveTx \in 1..Len(txs)
                 /\ txs[loc.approveTx] = w[2]
                 /\ txs[loc.approveTx - 1] = w[1]

\* an approve that found a positive, insufficient allowance has returned
C6_Witness ==
    /\ pc # "idle"
    /\ loc.site \in ApprovePcs
    /\ loc.currentAllowance > 0
    /\ loc.currentAllowance < ApproveArgs(loc.site).amount
    /\ loc.approveTx > 0
    /\ Len(CallTxs(loc.site)) = 2

-----------------------------------------------------------------------------
\* C7: a deposit called when the user's USDC balance is below the amount, the
\* agent's native balance is below the gas floor or the pool is not resolved
\* submits no transaction at all.
C7_PrerequisitesGate ==
    (loc.entry = "executeFullDeposit" /\ ~loc.prereq) => Len(txs) = loc.base

-----------------------------------------------------------------------------
\* C8: the txHashes of a successful result are, in commit order, the ids of all
\* the writes the workflow made, real approvals included.
C8_AllWritesRecorded ==
    (pc = "idle" /\ result.success /\ result.kind \in {"deposit", "withdraw"})
        => result.txHashes = AllWrites

-----------------------------------------------------------------------------
\* C9: a withdrawal transfers to the user the agent's whole USDC balance as it
\* is read after both reverse swaps, and when the transfer is confirmed the
\* agent holds no USDC.
C9_SweepsEntireBalance ==
    /\ pc = "wTransfer"
          => /\ loc.final = agentBal[USDC]
             /\ HasPending => /\ PendingTx.op = "transfer"
                              /\ PendingTx.other = loc.user
                              /\ PendingTx.amount = agentBal[USDC]
    /\ (pc = "idle" /\ result.kind = "withdraw" /\ result.success)
          => /\ agentBal[USDC] = 0
             /\ txs[Len(txs)].op = "transfer"
             /\ txs[Len(txs)].status = "confirmed"
             /\ result.amount = formatUnits(txs[Len(txs)].amount)

\* a withdrawal succeeded and swept more USDC than the two swaps produced
C9_Witness ==
    /\ pc = "idle" /\ result.kind = "withdraw" /\ result.success
    /\ txs[Len(txs)].op = "transfer"
    /\ txs[Len(txs)].amount > swappedUsdc
    /\ swappedUsdc > 0

-----------------------------------------------------------------------------
\* C10: withdrawAll called on an initialized agent with nothing staked returns
\* success = false with the nothing-to-withdraw message and empty txHashes; it
\* submits no transaction and does not enter executeWithdraw, so no unstake.
withdrawAllCalled ==
    pc = "idle" /\ runsLeft' # runsLeft /\ loc'.entry = "withdrawAll"

C10_NothingToWithdraw ==
    [][(withdrawAllCalled /\ staked = 0)
          => /\ pc' = "idle"
             /\ ~result'.success
             /\ result'.txHashes = <<>>
             /\ txs' = txs
             /\ UNCHANGED ledgerVars
             /\ gaugeContract = GAUGE
                   => result'.error = "No LP tokens staked - nothing to withdraw"]_vars

\* withdrawAll has short-circuited on an initialized agent with nothing staked
C10_Witness ==
    /\ pc = "idle"
    /\ loc.entry = "withdrawAll"
    /\ gaugeContract = GAUGE
    /\ staked = 0
    /\ result.error = "No LP tokens staked - nothing to withdraw"
    /\ ~result.success
    /\ txs = <<>>

-----------------------------------------------------------------------------
\* C11: withdrawAll reports nothing-to-withdraw only when the ledger's staked
\* balance is zero; a staked-balance read that fails is not taken for zero.
C11_NoDegradedRead ==
    [][(withdrawAllCalled
          /\ result'.error = "No LP tokens staked - nothing to withdraw")
          => staked = 0]_vars

-----------------------------------------------------------------------------
\* C12: a swap or addLiquidity step reached while the exchange layer has no
\* resolved pool fails with NotInitialized and submits nothing.
ExchangePcs == {"dSwapWeth", "dSwapVirtual", "dAddLiquidity", "wSwapWeth", "wSwapVirtual"}

C12_NotInitialized ==
    [][(poolAddress # POOL /\ pc \in ExchangePcs /\ ~HasPending)
          => /\ txs' = txs
             /\ pc' = "idle"
             /\ ~result'.success
             /\ result'.error = "NotInitialized"]_vars

-----------------------------------------------------------------------------
-----------------------------------------------------------------------------
\* C14: a withdrawal of more LP than the agent has staked fails at the unstake
\* step: success = false, txHashes empty, nothing submitted, no later step
\* entered.
C14_ExcessWithdraw ==
    [][(pc = "wUnstake" /\ loc.amount > staked)
          => /\ pc' = "idle"
             /\ loc'.at = "wUnstake"
             /\ result'.kind = "withdraw"
             /\ ~result'.success
             /\ result'.txHashes = <<>>
             /\ txs' = txs
             /\ UNCHANGED ledgerVars]_vars

\* an initialized agent with a stake was asked for more than the stake
C14_Witness ==
    /\ pc = "idle"
    /\ loc.entry = "executeWithdraw"
    /\ loc.at = "wUnstake"
    /\ gaugeContract = GAUGE
    /\ staked > 0
    /\ loc.amount > staked
    /\ ~result.success /\ result.txHashes = <<>>
    /\ txs = <<>>

-----------------------------------------------------------------------------
\* C15: round trip.  From an agent with no token balance and no stake, a
\* successful deposit of X followed by a successful withdrawAll returns r to
\* the user and leaves nothing staked.
RoundTripDone ==
    /\ pc = "idle"
    /\ loc.entry = "withdrawAll"
    /\ result.kind = "withdraw" /\ result.success

\* X: what the deposit's transferFrom took; r: what the final transfer sent
roundTripX == txs[1].amount
roundTripR == txs[Len(txs)].amount

-----------------------------------------------------------------------------
\* C16: a swap, liquidity or staking step that fails is tried again before the
\* workflow is reported as failed: the failing step has submitted at least one
\* earlier transaction besides its last attempt.
RetriedPcs == {"dSwapWeth", "dSwapVirtual", "dAddLiquidity", "dStake",
               "wUnstake", "wRemoveLiquidity", "wSwapWeth", "wSwapVirtual"}

C16_RetryBeforeFailure ==
    [][(WorkflowFails /\ pc \in RetriedPcs)
          => Len(SelectSeq(SubSeq(txs', loc.base + 1, Len(txs')),
                           LAMBDA t : t.step = pc)) >= 2]_vars

-----------------------------------------------------------------------------
(* The order of the steps *)

\* the place of a position in its workflow, in statement order
PcOrder(p) ==
    CASE p \in {"dTransferFrom", "wUnstake"} -> 1
      [] p \in {"dApproveUsdc", "wApproveLp"} -> 2
      [] p \in {"dSwapWeth", "wRemoveLiquidity"} -> 3
      [] p \in {"dSwapVirtual", "wReconcile"} -> 4
      [] p \in {"dReconcile", "wApproveWeth"} -> 5
      [] p \in {"dApproveWeth", "wApproveVirtual"} -> 6
      [] p \in {"dApproveVirtual", "wSwapWeth"} -> 7
      [] p \in {"dAddLiquidity", "wSwapVirtual"} -> 8
      [] p \in {"dAddLiquidityRead", "wReadUsdc"} -> 9
      [] p \in {"dApproveLp", "wTransfer"} -> 10
      [] p = "dStake" -> 11
      [] OTHER -> 0

\* the contract call a position makes
OpOf(p) ==
    CASE p \in ApprovePcs -> "approve"
      [] p = "dTransferFrom" -> "transferFrom"
      [] p \in {"dSwapWeth", "dSwapVirtual", "wSwapWeth", "wSwapVirtual"} -> "swap"
      [] p = "dAddLiquidity" -> "addLiquidity"
      [] p = "dStake" -> "stake"
      [] p = "wUnstake" -> "unstake"
      [] p = "wRemoveLiquidity" -> "removeLiquidity"
      [] p = "wTransfer" -> "transfer"
      [] OTHER -> "none"

\* the writes of the current invocation, positions ps, are in statement order:
\* each write is the call of its step; all but the last are confirmed; a step
\* writes once (an approve at most twice, the reset first); no write step is
\* skipped; nothing is written ahead of the position the workflow is at
InOrder(ps) ==
    LET w == SubSeq(txs, loc.base + 1, Len(txs)) IN
      /\ \A i \in 1..Len(w) :
            /\ w[i].step \in ps
            /\ w[i].op = OpOf(w[i].step)
            /\ i < Len(w) => w[i].status = "confirmed"
            /\ \A q \in ps \cap WritePcs :
                  PcOrder(q) < PcOrder(w[i].step)
                      => \E h \in 1..(i - 1) : w[h].step = q
      /\ \A i \in 1..Len(w), j \in 1..Len(w) :
            i < j => \/ PcOrder(w[i].step) < PcOrder(w[j].step)
                     \/ /\ w[i].step = w[j].step
                        /\ w[i].step \in ApprovePcs
                        /\ j = i + 1
                        /\ w[i].amount = 0
      /\ pc \in ps =>
            /\ \A i \in 1..Len(w) :
                  /\ PcOrder(w[i].step) <= PcOrder(pc)
                  /\ PcOrder(w[i].step) < PcOrder(pc) => w[i].status = "confirmed"
            /\ \A q \in ps \cap WritePcs :
                  PcOrder(q) < PcOrder(pc) => \E i \in 1..Len(w) : w[i].step = q

\* C17: the writes of a deposit occur in the order transferFrom, approve USDC,
\* swap to WETH, swap to VIRTUAL, approvals of WETH and VIRTUAL, addLiquidity,
\* approve LP, stake, the balances being re-read after the second swap and
\* before the approvals; each is submitted when the one before is confirmed;
\* none is skipped or repeated.
C17_DepositOrder ==
    loc.entry = "executeFullDeposit"
        => /\ InOrder(DepositPcs)
           /\ pc = "dReconcile"
                 => /\ CallTxs("dSwapVirtual") # <<>>
                    /\ CallTxs("dApproveWeth") = <<>>
           /\ (pc = "idle" /\ result.success)
                 => \A q \in DepositPcs \cap WritePcs : CallTxs(q) # <<>>

\* a deposit has succeeded with every approval a real write
C17_Witness ==
    /\ pc = "idle"
    /\ loc.entry = "executeFullDeposit"
    /\ result.success
    /\ \A q \in DepositPcs \cap ApprovePcs : CallTxs(q) # <<>>
    /\ Len(txs) - loc.base >= 9

-----------------------------------------------------------------------------
\* C18: the writes of a withdrawal occur in the order unstake, approve LP,
\* removeLiquidity, approvals of WETH and VIRTUAL, swap of WETH, swap of
\* VIRTUAL, transfer; each is submitted when the one before is confirmed; the
\* transfer to the user is submitted only after both reverse swaps are
\* confirmed and never in a run in which an earlier step failed.
C18_WithdrawOrder ==
    loc.kind = "withdraw"
        => /\ InOrder(WithdrawPcs)
           /\ CallTxs("wTransfer") # <<>>
                 => /\ \A q \in {"wSwapWeth", "wSwapVirtual"} :
                          /\ Len(CallTxs(q)) = 1
                          /\ CallTxs(q)[1].status = "confirmed"
                    /\ \A i \in (loc.base + 1)..(Len(txs) - 1) :
                          txs[i].status = "confirmed"
           /\ (pc = "idle" /\ ~result.success)
                 => \A t \in {CallTxs("wTransfer")[i] : i \in 1..Len(CallTxs("wTransfer"))} :
                       t.status = "reverted"

\* a withdrawal has succeeded with every approval a real write
C18_Witness ==
    /\ pc = "idle"
    /\ loc.kind = "withdraw"
    /\ result.success
    /\ \A q \in WithdrawPcs \cap ApprovePcs : CallTxs(q) # <<>>
    /\ Len(txs) - loc.base >= 8

-----------------------------------------------------------------------------
\* C19: in a deposit the amounts approved for the router and passed to
\* addLiquidity are the agent's WETH and VIRTUAL balances as they stand on the
\* ledger after both swaps, whatever the agent held before the deposit.
C19_DepositReconciled ==
    pc \in {"dApproveWeth", "dApproveVirtual", "dAddLiquidity"}
        => /\ loc.weth = agentBal[WETH]
           /\ loc.virtual = agentBal[VIRTUAL]
           /\ \A i \in 1..Len(CallTxs("dApproveWeth")) :
                 CallTxs("dApproveWeth")[i].amount \in {0, agentBal[WETH]}
           /\ \A i \in 1..Len(CallTxs("dApproveVirtual")) :
                 CallTxs("dApproveVirtual")[i].amount \in {0, agentBal[VIRTUAL]}
           /\ pc \in ApprovePcs => ApproveArgs(pc).amount = agentBal[ApproveArgs(pc).token]
           /\ \A i \in 1..Len(CallTxs("dAddLiquidity")) :
                 /\ CallTxs("dAddLiquidity")[i].amount = agentBal[WETH]
                 /\ CallTxs("dAddLiquidity")[i].amountB = agentBal[VIRTUAL]

\* addLiquidity is submitted with more WETH than the deposit's swap paid out,
\* after a real approval of that amount
C19_Witness ==
    /\ pc = "dAddLiquidity" /\ HasPending
    /\ PendingTx.op = "addLiquidity"
    /\ CallTxs("dSwapWeth") # <<>>
    /\ PendingTx.amount > CallTxs("dSwapWeth")[1].out
    /\ CallTxs("dApproveWeth") # <<>>

-----------------------------------------------------------------------------
\* C20: in a withdrawal the amounts approved for the router and taken by the
\* two reverse swaps are the agent's WETH and VIRTUAL balances as they stand on
\* the ledger after removeLiquidity, not what removeLiquidity reported.
C20_WithdrawReconciled ==
    /\ pc \in {"wApproveWeth", "wApproveVirtual", "wSwapWeth"}
          => /\ loc.weth = agentBal[WETH]
             /\ loc.virtual = agentBal[VIRTUAL]
             /\ \A i \in 1..Len(CallTxs("wApproveWeth")) :
                   CallTxs("wApproveWeth")[i].amount \in {0, agentBal[WETH]}
             /\ \A i \in 1..Len(CallTxs("wApproveVirtual")) :
                   CallTxs("wApproveVirtual")[i].amount \in {0, agentBal[VIRTUAL]}
             /\ \A i \in 1..Len(CallTxs("wSwapWeth")) :
                   CallTxs("wSwapWeth")[i].amount = agentBal[WETH]
    /\ pc = "wSwapVirtual"
          => /\ loc.virtual = agentBal[VIRTUAL]
             /\ \A i \in 1..Len(CallTxs("wSwapVirtual")) :
                   CallTxs("wSwapVirtual")[i].amount = agentBal[VIRTUAL]

\* the WETH swap of a withdrawal takes more than removeLiquidity paid out
C20_Witness ==
    /\ pc = "wSwapWeth" /\ HasPending
    /\ PendingTx.op = "swap"
    /\ CallTxs("wRemoveLiquidity") # <<>>
    /\ PendingTx.amount > CallTxs("wRemoveLiquidity")[1].out
    /\ PendingTx.amount = agentBal[WETH]


-----------------------------------------------------------------------------
\* C21: in a successful deposit the gauge approval and the stake both carry the
\* LP amount addLiquidity returned (the agent's LP balance it read after the
\* mint), and the staked amount of the result is that amount, formatted.
C21_StakesReturnedLiquidity ==
    [][(pc = "dStake" /\ result' # result /\ result'.success)
         => LET liquidity == agentBal[LP]
                approvals == SelectSeq(SubSeq(txs, loc.base + 1, Len(txs)),
                               LAMBDA t : t.step = "dApproveLp" /\ t.amount # 0)
            IN  /\ loc.liquidity = liquidity
                /\ PendingTx.op = "stake" /\ PendingTx.amount = liquidity
                /\ \A i \in 1..Len(approvals) :
                      /\ approvals[i].amount = liquidity
                      /\ approvals[i].other = GAUGE
                /\ result'.amount = formatUnits(liquidity)
                /\ staked' = staked + liquidity]_vars

\* a successful deposit whose gauge approval was written and whose LP balance
\* held more than the mint
C21_Witness ==
    /\ result.kind = "deposit" /\ result.success
    /\ \E i \in loc.base + 1..Len(txs) :
         txs[i].step = "dApproveLp" /\ txs[i].amount # 0
    /\ \E i, j \in loc.base + 1..Len(txs) :
         /\ txs[i].op = "addLiquidity" /\ txs[j].op = "stake"
         /\ txs[j].amount > txs[i].out


-----------------------------------------------------------------------------
\* C22: the "no-tx-needed" sentinel is never an element of the hashes a workflow
\* has collected nor of the txHashes of any deposit or withdrawal result,
\* whichever approvals were no-ops and wherever the workflow stopped.
C22_NoSentinelInHashes ==
    /\ \A i \in 1..Len(txHashes) : txHashes[i] # NoTxNeeded
    /\ \A i \in 1..Len(result.txHashes) : result.txHashes[i] # NoTxNeeded

\* a deposit succeeded although both approvals whose value the workflow pushes
\* were no-ops: no approve transaction of either step was sent
C22_Witness ==
    /\ pc = "idle" /\ result.kind = "deposit" /\ result.success
    /\ Len(result.txHashes) > 0
    /\ \A i \in loc.base + 1..Len(txs) :
         txs[i].step \notin {"dApproveUsdc", "dApproveLp"}


-----------------------------------------------------------------------------
\* C23: initialize resolves the pool, then the gauge from that pool, each only
\* after the previous succeeded: in every reachable state a resolved gauge
\* implies a resolved pool, and a call whose pool resolution fails does not
\* resolve a gauge.
C23_GaugeImpliesPool ==
    gaugeContract = GAUGE => poolAddress = POOL

-----------------------------------------------------------------------------
-----------------------------------------------------------------------------
\* C25: an initialize whose pool discovery answers the null address leaves the
\* layer's pool reference what it was before the call.
C25_FailedInitializeKeepsPool ==
    [][poolAddress' = ZeroAddress => poolAddress' = poolAddress]_vars


-----------------------------------------------------------------------------
-----------------------------------------------------------------------------
\* C27: when the quote call of a swap fails the swap goes on: the failing quote
\* ends no workflow, touches neither result nor hashes nor ledger and fixes the
\* minimum output at one base unit, and the swap transaction that follows is
\* submitted with a minimum output of exactly 1.
C27_QuoteFailureFallback ==
    [][/\ (pc \in SwapPcs /\ loc.quoted = "none" /\ loc'.quoted = "failed")
            => /\ pc' = pc /\ result' = result /\ txHashes' = txHashes
               /\ txs' = txs /\ UNCHANGED ledgerVars
               /\ loc'.amountOutMin = 1
       /\ (pc \in SwapPcs /\ loc.quoted = "failed" /\ Len(txs') > Len(txs))
            => /\ txs'[Len(txs')].op = "swap"
               /\ txs'[Len(txs')].min = 1
               /\ txs'[Len(txs')].amount = swapAmountIn(pc)
               /\ pc' = pc /\ result' = result]_vars

\* a swap transaction is in flight that was submitted after its quote had failed
C27_Witness ==
    /\ pc \in SwapPcs /\ loc.quoted = "failed"
    /\ HasPending /\ PendingTx.op = "swap" /\ PendingTx.min = 1

-----------------------------------------------------------------------------
\* C28: every addLiquidity transaction is submitted with minimum accepted
\* amounts of 0 for both tokens, whatever the slippage tolerance of the caller.
C28_ZeroMinimumAmounts ==
    \A i \in 1..Len(txs) :
        txs[i].op = "addLiquidity" => txs[i].min = 0 /\ txs[i].minB = 0

\* an addLiquidity submitted by a caller whose tolerance and desired amounts
\* would give minimum amounts above 0
C28_Witness ==
    /\ Len(txs) = 1 /\ txs[1].op = "addLiquidity"
    /\ loc.slippage = 50
    /\ calculateMinAmount(txs[1].amount, loc.slippage) > 0
    /\ calculateMinAmount(txs[1].amountB, loc.slippage) > 0

-----------------------------------------------------------------------------
\* C29: the staked-balance read answers zero in place of an error only when the
\* error is a rate-limit error; with any other error of the read withdrawAll
\* ends with the error answer of getWithdrawableAmount, not with "nothing staked".
C29_OnlyRateLimitDegrades ==
    [][(withdrawAllCalled /\ loc'.raised \in ReadErrors \ {RateLimitError})
         => result'.error = "Error checking staked balance"]_vars

-----------------------------------------------------------------------------
\* C30: an error of a write operation of the token, exchange or staking layer
\* reaches the workflow as the error the remote call raised, not wrapped, and
\* the error field of the result is the string form of that error.
C30_ErrorsUnwrapped ==
    [][(/\ pc \in WritePcs \cup ApprovePcs \cup {"dAddLiquidityRead"}
        /\ result' # result /\ ~result'.success)
         => /\ loc'.raised \in RemoteErrors \cup {NotInitialized}
            /\ result'.error = String(loc'.raised)
            /\ result'.txHashes = txHashes]_vars

\* a workflow ended at a write whose transaction reverted: the result carries
\* the string form of the error the wait raised
C30_Witness ==
    /\ pc = "idle" /\ ~result.success
    /\ loc.at \in WritePcs \cup ApprovePcs
    /\ loc.raised \in RemoteErrors
    /\ result.error = String(loc.raised)
    /\ Len(txs) > loc.base /\ txs[Len(txs)].status = "reverted"

-----------------------------------------------------------------------------
\* C36: a deposit of N never swaps more stablecoin than N: the inputs of its
\* swaps sum to at most N, the two together fall short of N by at most one base
\* unit, and an approval written for the router is for N.
C36_SwapsWithinAmount ==
    loc.kind = "deposit" /\ loc.entry = "executeFullDeposit" /\ loc.at # "parse"
      => LET w == SubSeq(txs, loc.base + 1, Len(txs))
             swaps == SelectSeq(w, LAMBDA t : t.op = "swap" /\ t.token = USDC)
             approvals == SelectSeq(w, LAMBDA t : t.step = "dApproveUsdc"
                                                    /\ t.amount # 0)
             N == loc.amount
             sum == IF Len(swaps) = 0 THEN 0
                    ELSE IF Len(swaps) = 1 THEN swaps[1].amount
                    ELSE swaps[1].amount + swaps[2].amount
         IN  /\ Len(swaps) <= 2
             /\ sum <= N
             /\ Len(swaps) = 2 => N - sum <= 1
             /\ \A i \in 1..Len(approvals) :
                   approvals[i].amount = N /\ approvals[i].other = AERODROME_ROUTER

\* a deposit of an odd amount has submitted both swaps, one base unit short,
\* after writing the router's approval
C36_Witness ==
    /\ loc.kind = "deposit" /\ loc.amount % 2 = 1 /\ loc.amount > 1
    /\ LET w == SubSeq(txs, loc.base + 1, Len(txs)) IN
         /\ \E i, j \in 1..Len(w) :
               /\ i < j /\ w[i].op = "swap" /\ w[j].op = "swap"
               /\ w[i].amount + w[j].amount = loc.amount - 1
         /\ \E i \in 1..Len(w) :
               w[i].step = "dApproveUsdc" /\ w[i].amount = loc.amount

-----------------------------------------------------------------------------
\* C37: when approve found 0 < allowance < amount, its reset was confirmed and
\* its write of the amount fails, approve throws: the workflow ends failed, the
\* allowance is left at 0, lower than before the call, and the hash of the
\* confirmed reset is in no result.
C37_FailedSetLeavesZero ==
    [][(/\ pc \in ApprovePcs /\ apc = "set" /\ loc.currentAllowance > 0
        /\ result' # result)
         => LET a == ApproveArgs(pc)
                w == SelectSeq(SubSeq(txs', loc.base + 1, Len(txs')),
                               LAMBDA t : t.step = pc)
            IN  /\ ~result'.success /\ pc' = "idle"
                /\ loc.currentAllowance < a.amount
                /\ allowance'[<<a.token, a.spender>>] = 0
                /\ allowance'[<<a.token, a.spender>>] < loc.currentAllowance
                /\ Len(w) >= 1 /\ w[1].amount = 0 /\ w[1].status = "confirmed"
                /\ \A i \in 1..Len(w) : w[i].amount # 0 => w[i].status = "reverted"
                /\ \A i \in loc.base + 1..Len(txs') :
                      (txs'[i].step = pc /\ txs'[i].amount = 0)
                        => \A h \in 1..Len(result'.txHashes) :
                              result'.txHashes[h] # i]_vars

\* an approve ended with a confirmed reset followed by a reverted write of the
\* amount, and the allowance is 0
C37_Witness ==
    /\ pc = "idle" /\ ~result.success /\ loc.at \in ApprovePcs
    /\ Len(txs) >= loc.base + 2
    /\ txs[Len(txs) - 1].step = loc.at /\ txs[Len(txs) - 1].amount = 0
    /\ txs[Len(txs) - 1].status = "confirmed"
    /\ txs[Len(txs)].step = loc.at /\ txs[Len(txs)].status = "reverted"
    /\ allowance[<<txs[Len(txs)].token, txs[Len(txs)].other>>] = 0

-----------------------------------------------------------------------------
\* C38: when approve found an allowance of 0 and the amount is above 0, it has
\* written once when it returns: the write of the amount, with no reset; it
\* returns the hash of that write, and the allowance is the amount.
C38_SingleWriteFromZero ==
    [][(/\ pc \in ApprovePcs /\ pc' \notin {pc, "idle"}
        /\ loc'.currentAllowance = 0 /\ ApproveArgs(pc).amount > 0)
         => LET a == ApproveArgs(pc)
                w == SelectSeq(SubSeq(txs', loc.base + 1, Len(txs')),
                               LAMBDA t : t.step = pc)
            IN  /\ Len(w) = 1
                /\ w[1].op = "approve" /\ w[1].amount = a.amount
                /\ w[1].status = "confirmed"
                /\ loc'.approveTx = Len(txs') /\ txs'[Len(txs')] = w[1]
                /\ allowance'[<<a.token, a.spender>>] = a.amount]_vars

\* an approve that started from an allowance of 0 has returned the hash of its
\* one write
C38_Witness ==
    /\ loc.site \in ApprovePcs /\ loc.currentAllowance = 0
    /\ loc.approveTx > 0 /\ loc.approveTx = Len(txs)
    /\ txs[loc.approveTx].step = loc.site /\ txs[loc.approveTx].amount > 0
    /\ allowance[<<txs[loc.approveTx].token, txs[loc.approveTx].other>>]
         = txs[loc.approveTx].amount

-----------------------------------------------------------------------------
\* C34: a workflow's result has success = TRUE exactly when the final write of
\* the invocation is confirmed: the stake of a deposit, the transfer to the user
\* of a withdrawal.  No failed result follows a confirmed final write.
C34_SuccessIffFinalConfirmed ==
    loc.kind \in {"deposit", "withdraw"}
      => LET final == IF loc.kind = "deposit" THEN "dStake" ELSE "wTransfer"
             finalConfirmed ==
               \E i \in loc.base + 1..Len(txs) :
                  txs[i].step = final /\ txs[i].status = "confirmed"
         IN  /\ result.success <=> finalConfirmed
             /\ result.success => result.kind = loc.kind /\ pc = "idle"

\* a withdrawal returned failed at its transfer to the user, which reverted
\* after every earlier write was confirmed
C34_Witness ==
    /\ pc = "idle" /\ loc.kind = "withdraw" /\ ~result.success
    /\ loc.at = "wTransfer"
    /\ Len(txs) > loc.base /\ txs[Len(txs)].step = "wTransfer"
    /\ txs[Len(txs)].status = "reverted"

-----------------------------------------------------------------------------
\* C39: every failure of executeFullDeposit and executeWithdraw is returned as
\* a result: success = FALSE, the output amount zero, a non-empty error, and the
\* transaction hashes collected up to the failure, each of them a confirmed
\* write of this invocation.  An amount string that does not parse fails before
\* any write, with no hashes.  The workflow is over once the result is there.
C39_FailuresAreResults ==
    [][(/\ result' # result
        /\ loc'.entry \in {"executeFullDeposit", "executeWithdraw"}
        /\ ~result'.success)
         => /\ result'.kind = loc'.kind
            /\ result'.amount = formatUnits(0)
            /\ result'.error # ""
            /\ result'.txHashes = txHashes
            /\ \A k \in 1..Len(txHashes) :
                  /\ txHashes[k] \in loc'.base + 1..Len(txs')
                  /\ txs'[txHashes[k]].status = "confirmed"
            /\ loc'.at = "parse" => txHashes = <<>> /\ txs' = txs /\ pc = "idle"
            /\ pc' = "idle" /\ apc' = "none"]_vars

\* a deposit failed at a swap after its transfer in was confirmed: the result
\* carries the hashes of the confirmed writes and the error
C39_Witness ==
    /\ pc = "idle" /\ loc.entry = "executeFullDeposit" /\ ~result.success
    /\ loc.at \in SwapPcs
    /\ Len(result.txHashes) > 0
    /\ result.error # "" /\ result.amount = formatUnits(0)

-----------------------------------------------------------------------------
-----------------------------------------------------------------------------
\* what a transaction of the log changed of the agent's USDC balance
UsdcDelta(t) ==
    IF t.status # "confirmed" THEN 0
    ELSE CASE t.op = "transferFrom" -> t.amount
           [] t.op = "transfer" /\ t.token = USDC -> 0 - t.amount
           [] t.op = "swap" /\ t.token = USDC -> 0 - t.amount
           [] t.op = "swap" /\ t.other = USDC -> t.out
           [] OTHER -> 0

\* the agent's USDC balance after the first k transactions of the log, for an
\* agent that began without USDC
RECURSIVE UsdcHeld(_)
UsdcHeld(k) == IF k = 0 THEN 0 ELSE UsdcHeld(k - 1) + UsdcDelta(txs[k])

\* C35: the USDC an earlier invocation left with the agent (a deposit that
\* failed after its transfer in, or the base unit of an odd amount that was not
\* swapped) is part of what the next successful withdrawal transfers out: the
\* transfer is for that USDC plus the proceeds of the withdrawal's own swaps, it
\* goes to the user of the withdrawal whoever deposited, and the agent keeps
\* no USDC.
C35_LeftoverSwept ==
    (loc.kind = "withdraw" /\ result.kind = "withdraw" /\ result.success)
      => LET last == txs[Len(txs)]
             left == UsdcHeld(loc.base)
         IN  /\ last.step = "wTransfer" /\ last.status = "confirmed"
             /\ last.token = USDC /\ last.other = loc.user
             /\ last.amount = left + swappedUsdc
             /\ last.amount = UsdcHeld(Len(txs) - 1)
             /\ agentBal[USDC] = 0

\* a deposit of one user left USDC with the agent and the withdrawal of
\* another user succeeded
C35_Witness ==
    /\ loc.kind = "withdraw" /\ result.kind = "withdraw" /\ result.success
    /\ UsdcHeld(loc.base) > 0
    /\ txs[1].op = "transferFrom" /\ txs[1].other # loc.user
    /\ txs[Len(txs)].amount > swappedUsdc

-----------------------------------------------------------------------------
\* C32: if every remote call returns or fails, every invocation of
\* executeFullDeposit, executeWithdraw and withdrawAll returns a result, and
\* only one.  A workflow under way has no result yet and takes no other
\* invocation; each step leaves it where it is, moves it to a later statement,
\* or ends it with its result.
C32_EveryInvocationReturns ==
    /\ (pc # "idle") ~> (pc = "idle" /\ result.kind = loc.kind)
    /\ [][pc # "idle"
            => /\ result = NoResult
               /\ loc'.entry = loc.entry /\ loc'.base = loc.base
               /\ runsLeft' = runsLeft
               /\ IF pc' = "idle"
                  THEN result' # NoResult /\ result'.kind = loc.kind
                  ELSE result' = NoResult /\ PcOrder(pc') >= PcOrder(pc)]_vars

\* a deposit has returned its result after its stake, the last of its steps
C32_Witness ==
    /\ pc = "idle" /\ loc.entry = "executeFullDeposit" /\ loc.at = "done"
    /\ result.kind = "deposit" /\ result.success
    /\ Len(result.txHashes) >= 5

-----------------------------------------------------------------------------
\* what a transaction of the log changed of the agent's balance of WETH or
\* VIRTUAL
TokenDelta(token, t) ==
    IF t.status # "confirmed" THEN 0
    ELSE CASE t.op = "swap" /\ t.other = token -> t.out
           [] t.op = "swap" /\ t.token = token -> 0 - t.amount
           [] t.op = "addLiquidity" /\ token = WETH -> 0 - t.amount
           [] t.op = "addLiquidity" /\ token = VIRTUAL -> 0 - t.amountB
           [] OTHER -> 0

\* the agent's balance of the token after the first k transactions of the
\* log, whichever invocation submitted them, for an agent that began without
RECURSIVE TokenHeld(_, _)
TokenHeld(token, k) ==
    IF k = 0 THEN 0 ELSE TokenHeld(token, k - 1) + TokenDelta(token, txs[k])

\* what the swap into the token of the invocation with these hashes paid out
OwnSwapOutput(token, hashes) ==
    LET w == SelectSeq(hashes, LAMBDA i : txs[i].op = "swap" /\ txs[i].other = token)
    IN  IF w = <<>> THEN 0 ELSE txs[w[1]].out

\* C31: with two deposits under way at once, the balances a deposit reconciles
\* are the agent's whole balances of WETH and VIRTUAL, what the confirmed swaps
\* of both deposits paid in less what the addLiquidity of either took out, and
\* its addLiquidity asks for exactly them: a deposit can supply liquidity with
\* tokens the other deposit's swaps produced.
C31_ReconcilesSharedBalance ==
    [][/\ (pc = "dReconcile" /\ pc' = "dApproveWeth")
          => /\ loc'.weth = TokenHeld(WETH, Len(txs))
             /\ loc'.virtual = TokenHeld(VIRTUAL, Len(txs))
       /\ (pc = "dAddLiquidity" /\ Len(txs') > Len(txs))
          => /\ txs'[Len(txs')].op = "addLiquidity"
             /\ txs'[Len(txs')].amount = loc.weth
             /\ txs'[Len(txs')].amountB = loc.virtual]_vars

\* while the first deposit waits after its swap into WETH, the second deposit
\* has had confirmed an addLiquidity of more WETH than its own swap paid out
C31_Witness ==
    /\ peer.pc \in DepositPcs
    /\ \E j \in 1..Len(peer.txHashes) :
         /\ txs[peer.txHashes[j]].op = "swap"
         /\ txs[peer.txHashes[j]].other = WETH
    /\ loc.kind = "deposit" /\ pc \in {"dApproveLp", "dStake"}
    /\ \E k \in 1..Len(txHashes) :
         /\ txs[txHashes[k]].op = "addLiquidity"
         /\ txs[txHashes[k]].status = "confirmed"
         /\ txs[txHashes[k]].amount = loc.weth
         /\ txs[txHashes[k]].amount > OwnSwapOutput(WETH, txHashes)
         /\ OwnSwapOutput(WETH, txHashes) > 0

=============================================================================
